---- MODULE Spec2Model ----
(***************************************************************************)
(* The real-time voice session of src/components/LiveChat.tsx as a state   *)
(* machine: the React state of the component, its refs, the objects the    *)
(* browser and the streaming client hand out (microphone streams, audio    *)
(* contexts, connections, playback sources) and the callbacks that run on  *)
(* the single event loop.                                                   *)
(*                                                                         *)
(* Time is counted in quarters of a second: a duration of 4 is 1.0 s.      *)
(* A text is a sequence of one-character strings, so that trim() and       *)
(* concatenation are computed and not assumed.                              *)
(* Object identities (stream, audio contexts, connection) are the number   *)
(* of the handleStart call that created them; 0 stands for null.           *)
(*                                                                         *)
(* The audio conversions of the same file (createBlob, encode, decode,     *)
(* decodeAudioData) are operators on sequences of samples, bytes and       *)
(* base64 characters, with the 16-bit stores and the base64 sextets        *)
(* computed.                                                               *)
(***************************************************************************)
EXTENDS Integers, Sequences, FiniteSets, TLC

\* ------------------------------------------------------------------ bounds
\* samples in one captured frame and bytes in one inbound fragment (SpecCodec)
MaxFrame == 2
MaxBytes == 4
\* frames captured in one run of the capture side (SpecCapture)
CaptureFrames == 3
\* server messages in one run of the interleaved deliveries (SpecInterleave)
InterleaveMsgs == 3
\* server messages in one run with malformed fragments (SpecMalformed)
MalformedMsgs == 2

\* handleStart invocations in one run
MaxStarts == 2
\* server messages delivered in one run of the session lifecycle (Spec)
MaxMsgs == 1
\* handleStart invocations and server messages in one run of the playback
\* clock (SpecPlayback), and the largest value of the output context's
\* currentTime (quarters of a second)
PlaybackStarts == 1
PlaybackMsgs == 3
MaxTime == 3
\* handleStart invocations and server messages in one run of the transcript
\* assembly (SpecTranscript)
TranscriptStarts == 2
TranscriptMsgs == 2

\* ------------------------------------------------------------ input domains
\* audioBuffer.duration of an inbound fragment: 0.5 s, 0.75 s, 1.0 s
Durations == {2, 3, 4}
\* text of one transcription fragment
TextFrags == {<<"a">>, <<" ">>}
\* e.message of a transport error
ErrorMessages == {"reset", "timeout"}

Ids == 1..MaxStarts
null == 0
ErrNull == "<null>"

\* --------------------------------------------------------- string literals
StatusInitial == "Click Start to begin conversation."
StatusEnded == "Session ended. Click Start to begin again."
StatusRequesting == "Requesting microphone access..."
StatusDenied == "Microphone access denied."
StatusConnecting == "Connecting to Gemini..."
StatusConnected == "Connected. Start speaking..."
ErrorDenied == "Microphone access denied. Please allow microphone access in your browser settings."

VARIABLES
    \* React state (useState)
    isSessionActive, statusMessage, error, transcriptionHistory,
    \* refs (useRef)
    sessionPromiseRef, streamRef, audioContextRefs, outputPlayback,
    transcriptionRefs, aiRef,
    \* the component is mounted
    mounted,
    \* handleStart calls suspended at `await getUserMedia`, and calls made so far
    micPending, nStarts,
    \* objects handed out and not yet released: streams with a live track,
    \* audio contexts not closed
    liveStreams, liveInput, liveOutput,
    \* connections: state of each, and whether session.close() is registered on
    \* its session promise
    conn, closeReq,
    \* currentTime of the context in audioContextRefs.current.output
    outTime,
    \* playback sources created so far: [st, ctx, end]
    bufs,
    \* continuations waiting at `await decodeAudioData`
    microtasks,
    \* server messages delivered so far
    nMsgs,
    \* history variables: what the last handler did, the clock since it was last
    \* reset, the accumulators read by the last flush, the stale prefix of each
    \* accumulator, and how many times in a row handleStop has run
    last, epoch, flush, carry, stopStreak,
    \* a release was applied to an object that was already released
    reReleased,
    \* the capture side: running script processors on each input context, the
    \* frames their callbacks have produced, the sends waiting on each session
    \* promise and the frames handed to each connection; afterStop records
    \* that stop() has run and handleStart has not been called since
    outbound,
    \* the last audio conversion: the captured frame and the blob made of it, or
    \* the inbound audio data and the buffer decoded from it
    pcm,
    \* NewsAnalyzer: its React state and the two requests it can have in flight
    news,
    \* VideoGenerator: its React state, the position of handleGenerate and of
    \* generateVideo, and the progress messages reported so far
    video,
    \* one call of getGroundedChatResponse: its arguments, the request it made
    \* and what it returned or threw
    grounded

liveChatVars == <<isSessionActive, statusMessage, error, transcriptionHistory,
                  sessionPromiseRef, streamRef, audioContextRefs, outputPlayback,
                  transcriptionRefs, aiRef, mounted, micPending, nStarts,
                  liveStreams, liveInput, liveOutput, conn, closeReq, outTime, bufs,
                  microtasks, nMsgs, last, epoch, flush, carry, stopStreak,
                  reReleased, outbound>>

vars == <<liveChatVars, pcm, news, video, grounded>>

\* ----------------------------------------------------------------- helpers
Max(a, b) == IF a >= b THEN a ELSE b

IsSpace(ch) == ch = " "

RECURSIVE TrimStart(_)
TrimStart(s) ==
    IF s = <<>> THEN <<>>
    ELSE IF IsSpace(Head(s)) THEN TrimStart(Tail(s)) ELSE s

RECURSIVE TrimEnd(_)
TrimEnd(s) ==
    IF s = <<>> THEN <<>>
    ELSE IF IsSpace(s[Len(s)]) THEN TrimEnd(SubSeq(s, 1, Len(s) - 1)) ELSE s

\* String.prototype.trim
Trim(s) == TrimEnd(TrimStart(s))

\* a JavaScript string used as a condition: the empty string is falsy
Truthy(s) == s # <<>>

\* ------------------------------------------------------------ history values
\* last: the handler that ran last, whether it threw, whether it handled a
\* turn-complete or an interruption marker, how many playback sources it
\* stopped, and the message of the error event it was given
LastOf(op) == [op |-> op, threw |-> FALSE, turn |-> FALSE, intr |-> FALSE,
               cut |-> 0, arg |-> ""]
StoppedBy(op) == [LastOf(op) EXCEPT !.cut = Cardinality(outputPlayback.sources)]
EpochZero == [durs |-> <<>>, first |-> 0, lastArr |-> 0, lastStart |-> 0,
              prevEnd |-> 0, b2b |-> TRUE, lastSeq |-> 0, prevSeq |-> 0,
              cutSeq |-> 0]
FlushNone == [fullInput |-> <<>>, fullOutput |-> <<>>, before |-> 0,
              staleIn |-> 0, staleOut |-> 0]

\* nothing captured and nothing sent
OutboundIdle ==
    [procs |-> [c \in Ids |-> 0], nFrames |-> 0,
     pending |-> [c \in Ids |-> <<>>], sent |-> [c \in Ids |-> <<>>],
     afterStop |-> FALSE]

\* no AudioBuffer, and no conversion made yet
NoBuffer ==
    [thrown |-> FALSE, numberOfChannels |-> 0, length |-> 0, sampleRate |-> 0,
     channels |-> <<>>]

PcmIdle ==
    [op |-> "none", frame |-> <<>>, blob |-> [data |-> <<>>, mimeType |-> ""],
     bytes |-> <<>>, wire |-> <<>>, buffer |-> NoBuffer]

\* NewsAnalyzer after construction (NewsAnalyzer.tsx:94-103): no result, no
\* web context, nothing in flight
NoResult == [set |-> FALSE, article |-> "", keywords |-> <<>>]

NoContext == [set |-> FALSE, query |-> ""]

NewsIdle ==
    [articleText |-> "", isLoading |-> FALSE, error |-> ErrNull, result |-> NoResult,
     isContextLoading |-> FALSE, contextResult |-> NoContext, contextError |-> ErrNull,
     analysis |-> [pending |-> FALSE, article |-> ""],
     context |-> [pending |-> FALSE, query |-> ""]]

NoUrl == "<null>"

\* VideoGenerator after construction and the key check (VideoGenerator.tsx:36-60):
\* nothing uploaded, nothing loading, handleGenerate not running
VideoIdle ==
    [apiKey |-> TRUE, imageFile |-> "", aspectRatio |-> "16:9",
     isLoading |-> FALSE, loadingMessage |-> "", error |-> ErrNull,
     videoUrl |-> NoUrl, isKeySelected |-> TRUE,
     pc |-> "idle", progress |-> <<>>, checks |-> 0, done |-> FALSE,
     polls |-> 0, fetched |-> FALSE, returned |-> NoUrl]


NoLocation == [set |-> FALSE, latitude |-> 0, longitude |-> 0]

NoGroundedRequest ==
    [set |-> FALSE, model |-> "", contents |-> "", tools |-> <<>>,
     toolConfig |-> [set |-> FALSE, latLng |-> NoLocation], thinkingBudget |-> 0]

\* no call of getGroundedChatResponse made
GroundedIdle ==
    [op |-> "none", prompt |-> "", useSearch |-> FALSE, useMaps |-> FALSE,
     useThinkingMode |-> FALSE, location |-> NoLocation,
     request |-> NoGroundedRequest, calls |-> 0, thrown |-> ErrNull,
     returned |-> [set |-> FALSE, text |-> "", sources |-> <<>>]]


\* -------------------------------------------------------------------- Init
LiveChatInit ==
    /\ isSessionActive = FALSE
    /\ statusMessage = StatusInitial
    /\ error = ErrNull
    /\ transcriptionHistory = <<>>
    /\ sessionPromiseRef = null
    /\ streamRef = null
    /\ audioContextRefs = [input |-> null, output |-> null, processor |-> null, source |-> null]
    /\ outputPlayback = [nextStartTime |-> 0, sources |-> {}]
    /\ transcriptionRefs = [currentInput |-> <<>>, currentOutput |-> <<>>]
    /\ aiRef = FALSE
    /\ mounted = TRUE
    /\ micPending = 0
    /\ nStarts = 0
    /\ liveStreams = {}
    /\ liveInput = {}
    /\ liveOutput = {}
    /\ conn = [c \in Ids |-> "none"]
    /\ closeReq = [c \in Ids |-> FALSE]
    /\ outTime = 0
    /\ bufs = <<>>
    /\ microtasks = <<>>
    /\ nMsgs = 0
    /\ last = LastOf("init")
    /\ epoch = EpochZero
    /\ flush = FlushNone
    /\ carry = [in |-> 0, out |-> 0]
    /\ stopStreak = 0
    /\ reReleased = FALSE
    /\ outbound = OutboundIdle

Init ==
    /\ LiveChatInit
    /\ pcm = PcmIdle
    /\ news = NewsIdle
    /\ video = VideoIdle
    /\ grounded = GroundedIdle

\* ------------------------------------------------------------ pure pieces
\* the clamp left out: the clock is used as it stands
ClampToDevice_None(nextStartTime, currentTime) == nextStartTime

\* line 182: Math.max(nextStartTime, outputCtx.currentTime)
ClampToDevice(nextStartTime, currentTime) == Max(nextStartTime, currentTime)

\* the advance left out: the next buffer starts where this one started
AdvanceClock_Dropped(nextStartTime, duration) == nextStartTime

\* line 192: nextStartTime += audioBuffer.duration
AdvanceClock(nextStartTime, duration) == nextStartTime + duration

\* line 199: the value the clock takes on an interruption
InterruptedClock(currentTime) == 0

\* line 129: the value the clock takes in handleStart
StartClock == 0

\* the two appends in the other order
FlushEntries_ModelFirst(fullInput, fullOutput) ==
    (IF Truthy(Trim(fullOutput))
        THEN <<[speaker |-> "model", text |-> fullOutput]>> ELSE <<>>)
    \o
    (IF Truthy(Trim(fullInput))
        THEN <<[speaker |-> "user", text |-> fullInput]>> ELSE <<>>)

\* lines 172-173: the entries a turn-complete marker appends
FlushEntries(fullInput, fullOutput) ==
    (IF Truthy(Trim(fullInput))
        THEN <<[speaker |-> "user", text |-> fullInput]>> ELSE <<>>)
    \o
    (IF Truthy(Trim(fullOutput))
        THEN <<[speaker |-> "model", text |-> fullOutput]>> ELSE <<>>)

\* the new entries put in place of the history
AppendEntries_Replace(history, entries) ==
    IF entries = <<>> THEN history ELSE entries

\* lines 172-173: setTranscriptionHistory(prev => [...prev, entry])
AppendEntries(history, entries) == history \o entries

\* the event's message left out of the error string
ConnectionErrorText_Generic(m) == "Connection error"

\* line 203: the error string of a transport error
ConnectionErrorText(m) == "Connection error: " \o m

\* no source is stopped
StopSources_None(bs, set) == bs

\* lines 94 and 197: source.stop() on every member of the set
StopSources(bs, set) ==
    [b \in DOMAIN bs |->
        IF b \in set THEN [st |-> "stopped", ctx |-> bs[b].ctx, end |-> 0] ELSE bs[b]]

\* lines 74-93: a handle is released only when its ref is not null
Held(ref) == ref # null

\* the ref is not set to null after its release
Released_Kept(ref) == ref

\* lines 76, 80, 84, 88, 92: the ref after its release
Released(ref) == null

\* line 34: the audio of a fragment whose decoded byte length is odd, in
\* place of a duration: new Int16Array(data.buffer) throws on it
Malformed == -1

\* the server messages: the fields onmessage reads
Messages ==
    { m \in [inT : {<<>>} \cup TextFrags, outT : {<<>>} \cup TextFrags,
             turn : BOOLEAN, audio : {0} \cup Durations, intr : BOOLEAN] :
        m.inT # <<>> \/ m.outT # <<>> \/ m.turn \/ m.audio # 0 \/ m.intr }

\* no continuation is waiting: the event loop takes the next task
TaskBoundary == microtasks = <<>>

ConnLive(c) == conn[c] \in {"connecting", "open", "stuck", "closing"}
ConnDelivers(c) == conn[c] \in {"open", "stuck", "closing"}

\* ------------------------------------------------------------- audio codec
\* A Float32 sample is a numerator over SampleDen, an Int16 sample decoded to
\* Float32 is a numerator over DecodeScale; a byte is a number in 0..255; a
\* base64 text is a sequence of one-character strings.

\* line 51: data[i] * 32768
Scale == 32768
\* line 41: dataInt16[...] / 32768.0
DecodeScale == 32768
\* line 184: decodeAudioData(decode(audioData), outputCtx, 24000, 1)
OutputSampleRate == 24000
NumChannels == 1
\* line 55
MimeType == "audio/pcm;rate=16000"

\* the grid of the captured samples: steps of half an Int16 unit, so that
\* data[i] * 32768 is the numerator of data[i] over StepsPerUnit
SampleDen == 2 * Scale
StepsPerUnit == SampleDen \div Scale

\* captured samples: -1.0, 1.0, 0.5, 0 and values next to them
Samples ==
    {-SampleDen, 1 - SampleDen, -(SampleDen \div 2) - 1, -3, -1, 0, 1, 3,
     SampleDen \div 2, SampleDen - 1, SampleDen}

Frames == UNION {[1..n -> Samples] : n \in 1..MaxFrame}

\* bytes of inbound fragments: both ends and the middle of the byte range
ByteValues == {0, 1, 64, 127, 128, 255}

Fragments == UNION {[1..n -> ByteValues] : n \in 1..MaxBytes}

\* ToIntegerOrInfinity: the quotient n / d rounded toward zero
Trunc(n, d) == IF n >= 0 THEN n \div d ELSE -((-n) \div d)

\* line 51: the store into an Int16Array element: modulo 2^16, then signed
ToInt16(k) == ((k + 32768) % 65536) - 32768

\* lines 49-52: the Int16Array filled by createBlob
Int16Of(data) == [i \in 1..Len(data) |-> ToInt16(Trunc(data[i], StepsPerUnit))]

\* the high byte of every element first
Uint8View_BigEndian(int16) ==
    [k \in 1..(2 * Len(int16)) |->
        LET u == int16[(k + 1) \div 2] % 65536
        IN  IF k % 2 = 1 THEN u \div 256 ELSE u % 256]

\* line 54: new Uint8Array(int16.buffer): the low byte of every element first
Uint8View(int16) ==
    [k \in 1..(2 * Len(int16)) |->
        LET u == int16[(k + 1) \div 2] % 65536
        IN  IF k % 2 = 1 THEN u % 256 ELSE u \div 256]

\* every pair of bytes read with its high byte first
Int16View_BigEndian(data) ==
    [k \in 1..(Len(data) \div 2) |->
        ToInt16(256 * data[2 * k - 1] + data[2 * k])]

\* line 34: new Int16Array(data.buffer) over a buffer of even byte length
Int16View(data) ==
    [k \in 1..(Len(data) \div 2) |->
        ToInt16(data[2 * k - 1] + 256 * data[2 * k])]

\* the base64 alphabet of btoa and atob
B64Chars ==
    <<"A", "B", "C", "D", "E", "F", "G", "H", "I", "J", "K", "L", "M",
      "N", "O", "P", "Q", "R", "S", "T", "U", "V", "W", "X", "Y", "Z",
      "a", "b", "c", "d", "e", "f", "g", "h", "i", "j", "k", "l", "m",
      "n", "o", "p", "q", "r", "s", "t", "u", "v", "w", "x", "y", "z",
      "0", "1", "2", "3", "4", "5", "6", "7", "8", "9", "+", "/">>

B64Char(v) == B64Chars[v + 1]
B64Value(ch) == (CHOOSE i \in DOMAIN B64Chars : B64Chars[i] = ch) - 1

\* line 15: btoa of the binary string whose character codes are the bytes
RECURSIVE btoa(_)
btoa(bs) ==
    IF bs = <<>> THEN <<>>
    ELSE IF Len(bs) = 1
      THEN <<B64Char(bs[1] \div 4), B64Char((bs[1] % 4) * 16), "=", "=">>
    ELSE IF Len(bs) = 2
      THEN <<B64Char(bs[1] \div 4), B64Char((bs[1] % 4) * 16 + bs[2] \div 16),
             B64Char((bs[2] % 16) * 4), "=">>
    ELSE <<B64Char(bs[1] \div 4), B64Char((bs[1] % 4) * 16 + bs[2] \div 16),
           B64Char((bs[2] % 16) * 4 + bs[3] \div 64), B64Char(bs[3] % 64)>>
         \o btoa(SubSeq(bs, 4, Len(bs)))

\* line 19: atob: the character codes of the binary string it returns
RECURSIVE atob(_)
atob(cs) ==
    IF Len(cs) < 4 THEN <<>>
    ELSE LET b1 == B64Value(cs[1]) * 4 + B64Value(cs[2]) \div 16
         IN  IF cs[3] = "=" THEN <<b1>>
             ELSE LET b2 == (B64Value(cs[2]) % 16) * 16 + B64Value(cs[3]) \div 4
                  IN  IF cs[4] = "=" THEN <<b1, b2>>
                      ELSE <<b1, b2, (B64Value(cs[3]) % 4) * 64 + B64Value(cs[4])>>
                           \o atob(SubSeq(cs, 5, Len(cs)))

\* lines 9-16
encode(bytes) == btoa(bytes)

\* lines 18-26
decode(base64) == atob(base64)

\* lines 47-57
createBlob(data) ==
    [data |-> encode(Uint8View(Int16Of(data))), mimeType |-> MimeType]

\* lines 28-45: the AudioBuffer, or the RangeError of line 34. The component
\* calls it with numChannels = 1 only, for which line 35 divides exactly.
decodeAudioData(data, sampleRate, numChannels) ==
    IF Len(data) % 2 # 0 THEN [NoBuffer EXCEPT !.thrown = TRUE]
    ELSE LET dataInt16 == Int16View(data)
             frameCount == Len(dataInt16) \div numChannels
         IN  [thrown |-> FALSE,
              numberOfChannels |-> numChannels,
              length |-> frameCount,
              sampleRate |-> sampleRate,
              channels |-> [channel \in 1..numChannels |->
                              [i \in 1..frameCount |->
                                  dataInt16[(i - 1) * numChannels + channel]]]]

\* the inputs of the conversions: a captured frame handed to onaudioprocess, or
\* the bytes of a fragment and the base64 text of them that a server message
\* carries
CodecInputs ==
    {[PcmIdle EXCEPT !.op = "frame", !.frame = f] : f \in Frames}
    \cup {[PcmIdle EXCEPT !.op = "fragment", !.bytes = b, !.wire = btoa(b)] :
             b \in Fragments}

InitCodec ==
    /\ LiveChatInit
    /\ pcm \in CodecInputs
    /\ news = NewsIdle
    /\ video = VideoIdle
    /\ grounded = GroundedIdle

\* lines 150-152: onaudioprocess converts the captured frame
AudioProcess ==
    /\ pcm.op = "frame"
    /\ pcm' = [pcm EXCEPT !.op = "capture", !.blob = createBlob(pcm.frame)]
    /\ UNCHANGED <<liveChatVars, news, video, grounded>>

\* lines 179 and 184: the audio data of a server message is decoded
InboundAudio ==
    /\ pcm.op = "fragment"
    /\ pcm' = [pcm EXCEPT !.op = "inbound",
                          !.buffer = decodeAudioData(decode(pcm.wire),
                                                     OutputSampleRate, NumChannels)]
    /\ UNCHANGED <<liveChatVars, news, video, grounded>>

\* lines 179 and 184 on the data of the blob made of the captured frame
Echo ==
    /\ pcm.op = "capture"
    /\ pcm' = [pcm EXCEPT !.op = "echo", !.wire = pcm.blob.data,
                          !.buffer = decodeAudioData(decode(pcm.blob.data),
                                                     OutputSampleRate, NumChannels)]
    /\ UNCHANGED <<liveChatVars, news, video, grounded>>

\* ------------------------------------------------------------ cleanup, stop
\* lines 73-98
cleanup ==
    /\ streamRef' = IF Held(streamRef) THEN Released(streamRef) ELSE streamRef
    /\ liveStreams' = IF Held(streamRef) THEN liveStreams \ {streamRef} ELSE liveStreams
    /\ audioContextRefs' =
         [processor |-> IF Held(audioContextRefs.processor)
                          THEN Released(audioContextRefs.processor)
                          ELSE audioContextRefs.processor,
          source |-> IF Held(audioContextRefs.source)
                       THEN Released(audioContextRefs.source)
                       ELSE audioContextRefs.source,
          input |-> IF Held(audioContextRefs.input)
                      THEN Released(audioContextRefs.input)
                      ELSE audioContextRefs.input,
          output |-> IF Held(audioContextRefs.output)
                       THEN Released(audioContextRefs.output)
                       ELSE audioContextRefs.output]
    /\ liveInput' = IF Held(audioContextRefs.input)
                      THEN liveInput \ {audioContextRefs.input} ELSE liveInput
    /\ liveOutput' = IF Held(audioContextRefs.output)
                       THEN liveOutput \ {audioContextRefs.output} ELSE liveOutput
    /\ reReleased' =
         \/ reReleased
         \/ Held(streamRef) /\ streamRef \notin liveStreams
         \/ Held(audioContextRefs.input) /\ audioContextRefs.input \notin liveInput
         \/ Held(audioContextRefs.output) /\ audioContextRefs.output \notin liveOutput
    \* lines 79 and 87: the processor held is disconnected, and the processors of
    \* the input context held stop with the context
    /\ outbound' =
         LET p == audioContextRefs.processor
             off == IF Held(p)
                      THEN [outbound.procs EXCEPT ![p] = IF @ > 0 THEN @ - 1 ELSE 0]
                      ELSE outbound.procs
         IN  [outbound EXCEPT
                !.procs = IF Held(audioContextRefs.input)
                            THEN [off EXCEPT ![audioContextRefs.input] = 0]
                            ELSE off,
                !.afterStop = TRUE]
    /\ outTime' = 0
    /\ bufs' = StopSources(bufs, outputPlayback.sources)
    /\ outputPlayback' = [outputPlayback EXCEPT !.sources = {}]
    /\ isSessionActive' = FALSE
    /\ statusMessage' = StatusEnded

\* lines 100-106; connNow is the connection table at the time of the call
handleStop(connNow) ==
    /\ IF sessionPromiseRef # null
         THEN /\ closeReq' = [closeReq EXCEPT ![sessionPromiseRef] = TRUE]
              \* .then(session => session.close()) runs once the promise has resolved
              /\ conn' = [connNow EXCEPT ![sessionPromiseRef] =
                              IF @ = "open" THEN "closing" ELSE @]
         ELSE /\ closeReq' = closeReq
              /\ conn' = connNow
    /\ sessionPromiseRef' = null
    /\ cleanup
    /\ stopStreak' = IF stopStreak >= 1 THEN 2 ELSE 1
    /\ flush' = FlushNone
    /\ UNCHANGED <<transcriptionHistory, transcriptionRefs, aiRef, micPending,
                   nStarts, microtasks, nMsgs, epoch, carry, pcm,
                   news, video, grounded>>

\* --------------------------------------------------------------- the buttons
\* line 233 and lines 108-114: Start is shown while the session is not active;
\* handleStart runs up to its await of getUserMedia
ClickStart ==
    /\ TaskBoundary
    /\ mounted
    /\ ~isSessionActive
    /\ nStarts < MaxStarts
    /\ error' = ErrNull
    /\ transcriptionHistory' = <<>>
    /\ statusMessage' = StatusRequesting
    /\ micPending' = micPending + 1
    /\ nStarts' = nStarts + 1
    /\ carry' = [in |-> Len(transcriptionRefs.currentInput),
                 out |-> Len(transcriptionRefs.currentOutput)]
    /\ last' = LastOf("handleStart")
    /\ stopStreak' = 0
    /\ flush' = FlushNone
    /\ outbound' = [outbound EXCEPT !.afterStop = FALSE]
    /\ UNCHANGED <<isSessionActive, sessionPromiseRef, streamRef, audioContextRefs,
                   outputPlayback, transcriptionRefs, aiRef, mounted, liveStreams,
                   liveInput, liveOutput, conn, closeReq, outTime, bufs, microtasks,
                   nMsgs, epoch, reReleased, pcm,
                   news, video, grounded>>

\* lines 114-134: getUserMedia resolves and handleStart runs to its end
MicGranted ==
    /\ TaskBoundary
    /\ micPending > 0
    /\ LET id == CHOOSE i \in Ids : conn[i] = "none" /\ \A j \in Ids : conn[j] = "none" => i <= j
       IN  /\ streamRef' = id
           /\ liveStreams' = liveStreams \cup {id}
           /\ aiRef' = TRUE
           /\ audioContextRefs' = [audioContextRefs EXCEPT !.input = id, !.output = id]
           /\ liveInput' = liveInput \cup {id}
           /\ liveOutput' = liveOutput \cup {id}
           /\ outTime' = 0
           /\ outputPlayback' = [outputPlayback EXCEPT !.nextStartTime = StartClock]
           /\ isSessionActive' = TRUE
           /\ statusMessage' = StatusConnecting
           /\ sessionPromiseRef' = id
           /\ conn' = [conn EXCEPT ![id] = "connecting"]
    /\ micPending' = micPending - 1
    /\ epoch' = EpochZero
    /\ last' = LastOf("micGranted")
    /\ stopStreak' = 0
    /\ flush' = FlushNone
    /\ UNCHANGED <<error, transcriptionHistory, transcriptionRefs, mounted, nStarts,
                   closeReq, bufs, microtasks, nMsgs, carry, reReleased, pcm, outbound,
                   news, video, grounded>>

\* the catch block without its return: handleStart goes on without a stream
MicDenied_NoReturn ==
    /\ TaskBoundary
    /\ micPending > 0
    /\ error' = ErrorDenied
    /\ LET id == CHOOSE i \in Ids : conn[i] = "none" /\ \A j \in Ids : conn[j] = "none" => i <= j
       IN  /\ aiRef' = TRUE
           /\ audioContextRefs' = [audioContextRefs EXCEPT !.input = id, !.output = id]
           /\ liveInput' = liveInput \cup {id}
           /\ liveOutput' = liveOutput \cup {id}
           /\ outTime' = 0
           /\ outputPlayback' = [outputPlayback EXCEPT !.nextStartTime = StartClock]
           /\ isSessionActive' = TRUE
           /\ statusMessage' = StatusConnecting
           /\ sessionPromiseRef' = id
           /\ conn' = [conn EXCEPT ![id] = "connecting"]
    /\ micPending' = micPending - 1
    /\ epoch' = EpochZero
    /\ last' = LastOf("micDenied")
    /\ stopStreak' = 0
    /\ flush' = FlushNone
    /\ UNCHANGED <<transcriptionHistory, transcriptionRefs, mounted, nStarts, streamRef,
                   liveStreams, closeReq, bufs, microtasks, nMsgs, carry, reReleased, pcm, outbound,
                   news, video, grounded>>

\* lines 115-119: getUserMedia rejects
MicDenied ==
    /\ TaskBoundary
    /\ micPending > 0
    /\ error' = ErrorDenied
    /\ statusMessage' = StatusDenied
    /\ micPending' = micPending - 1
    /\ last' = LastOf("micDenied")
    /\ stopStreak' = 0
    /\ flush' = FlushNone
    /\ UNCHANGED <<isSessionActive, transcriptionHistory, sessionPromiseRef, streamRef,
                   audioContextRefs, outputPlayback, transcriptionRefs, aiRef, mounted,
                   nStarts, liveStreams, liveInput, liveOutput, conn, closeReq, outTime,
                   bufs, microtasks, nMsgs, epoch, carry, reReleased, pcm, outbound,
                   news, video, grounded>>

\* line 238: Stop is shown while the session is active
ClickStop ==
    /\ TaskBoundary
    /\ mounted
    /\ isSessionActive
    /\ handleStop(conn)
    /\ last' = StoppedBy("handleStop")
    /\ UNCHANGED <<error, mounted>>

\* lines 213-215: the effect's cleanup on unmount
Teardown ==
    /\ TaskBoundary
    /\ mounted
    /\ mounted' = FALSE
    /\ handleStop(conn)
    /\ last' = StoppedBy("teardown")
    /\ UNCHANGED error

\* ------------------------------------------------------------ capture side
\* lines 147-159: a script processor is created on the input context and
\* connected; it runs until it is disconnected or its context is closed
ProcessorStarted(ob, ctx) == [ob EXCEPT !.procs[ctx] = @ + 1]

\* the frame put in front of the frames already handed over
Handed_First(log, frame) == <<frame>> \o log

\* line 154: session.sendRealtimeInput hands the frame to the connection
Handed(log, frame) == Append(log, frame)

RECURSIVE HandedAll(_, _)
HandedAll(log, frames) ==
    IF frames = <<>> THEN log
    ELSE HandedAll(Handed(log, Head(frames)), Tail(frames))

\* line 153: the session promise of connection c resolves: the callbacks that
\* onaudioprocess registered on it run in the order of their registration
\* (they were registered before any close() of handleStop)
Resolved(ob, c) ==
    [ob EXCEPT !.sent[c] = HandedAll(@, ob.pending[c]), !.pending[c] = <<>>]

\* lines 150-156: onaudioprocess of a running processor of input context ctx.
\* The frame is numbered by the order of the callbacks. With no session promise
\* held nothing is sent; on a pending promise the send waits; on a resolved one
\* it is made at once, and a connection that is closing or closed discards it.
OnAudioProcess(ctx) ==
    /\ TaskBoundary
    /\ outbound.procs[ctx] > 0
    /\ LET frame == outbound.nFrames + 1
           c == sessionPromiseRef
       IN  outbound' =
             [outbound EXCEPT
                !.nFrames = frame,
                !.pending = IF c # null /\ conn[c] \in {"connecting", "stuck"}
                              THEN [@ EXCEPT ![c] = Append(@, frame)] ELSE @,
                !.sent = IF c # null /\ conn[c] = "open"
                           THEN [@ EXCEPT ![c] = Handed(@, frame)] ELSE @]
    /\ last' = LastOf("onaudioprocess")
    /\ stopStreak' = 0
    /\ flush' = FlushNone
    /\ UNCHANGED <<isSessionActive, statusMessage, error, transcriptionHistory,
                   sessionPromiseRef, streamRef, audioContextRefs, outputPlayback,
                   transcriptionRefs, aiRef, mounted, micPending, nStarts, liveStreams,
                   liveInput, liveOutput, conn, closeReq, outTime, bufs, microtasks,
                   nMsgs, epoch, carry, reReleased, pcm,
                   news, video, grounded>>

\* ------------------------------------------------------ connection callbacks
\* lines 144-160: the connection opens. input! or streamRef.current! being null
\* makes line 146 throw after the status is set. Whether the session promise
\* still resolves after a throwing onopen is decided by the client library.
ConnOpen(c) ==
    /\ TaskBoundary
    /\ conn[c] = "connecting"
    /\ statusMessage' = StatusConnected
    /\ LET threw == audioContextRefs.input = null \/ streamRef = null
       IN  /\ audioContextRefs' =
                IF threw THEN audioContextRefs
                ELSE [audioContextRefs EXCEPT !.source = audioContextRefs.input,
                                              !.processor = audioContextRefs.input]
           /\ \E resolves \in (IF threw THEN BOOLEAN ELSE {TRUE}) :
                /\ conn' = [conn EXCEPT ![c] =
                               IF ~resolves THEN "stuck"
                               ELSE IF closeReq[c] THEN "closing" ELSE "open"]
                /\ outbound' =
                     LET started == IF threw THEN outbound
                                    ELSE ProcessorStarted(outbound, audioContextRefs.input)
                     IN  IF resolves THEN Resolved(started, c) ELSE started
           /\ last' = [LastOf("onopen") EXCEPT !.threw = threw]
    /\ stopStreak' = 0
    /\ flush' = FlushNone
    /\ UNCHANGED <<isSessionActive, error, transcriptionHistory, sessionPromiseRef,
                   streamRef, outputPlayback, transcriptionRefs, aiRef, mounted,
                   micPending, nStarts, liveStreams, liveInput, liveOutput, closeReq,
                   outTime, bufs, microtasks, nMsgs, epoch, carry, reReleased, pcm,
                   news, video, grounded>>

\* the error callback opening a new connection after it has stopped the session
OnError_Reconnects(c, m) ==
    /\ TaskBoundary
    /\ ConnLive(c)
    /\ error' = ConnectionErrorText(m)
    /\ handleStop([i \in Ids |->
                     IF conn[i] = "none" /\ \A j \in Ids : conn[j] = "none" => i <= j
                       THEN "connecting" ELSE conn[i]])
    /\ last' = [StoppedBy("onerror") EXCEPT !.arg = m]
    /\ UNCHANGED mounted

\* lines 202-205
OnError(c, m) ==
    /\ TaskBoundary
    /\ ConnLive(c)
    /\ error' = ConnectionErrorText(m)
    /\ handleStop(conn)
    /\ last' = [StoppedBy("onerror") EXCEPT !.arg = m]
    /\ UNCHANGED mounted

\* the close callback reporting the close as an error before it stops
OnClose_Reports(c) ==
    /\ TaskBoundary
    /\ ConnLive(c)
    /\ error' = "Connection closed"
    /\ handleStop([conn EXCEPT ![c] = "closed"])
    /\ last' = StoppedBy("onclose")
    /\ UNCHANGED mounted

\* lines 206-208
OnClose(c) ==
    /\ TaskBoundary
    /\ ConnLive(c)
    /\ handleStop([conn EXCEPT ![c] = "closed"])
    /\ last' = StoppedBy("onclose")
    /\ UNCHANGED <<error, mounted>>

\* ------------------------------------------------------------------ playback
\* the set cleared without stopping its members
Interrupted_ClearOnly(bs, set) ==
    [bufs |-> bs, sources |-> {}, nextStartTime |-> InterruptedClock(outTime)]

\* lines 196-200 applied to a sources set and a buffer table
Interrupted(bs, set) ==
    [bufs |-> StopSources(bs, set),
     sources |-> {},
     nextStartTime |-> InterruptedClock(outTime)]

\* the clock history after an interruption marker of message number seq
EpochCut(seq) ==
    [EpochZero EXCEPT !.lastSeq = epoch.lastSeq, !.cutSeq = seq]

\* the clock history after the buffer of message number seq is scheduled
EpochAfter(arr, start, dur, seq) ==
    [durs |-> Append(epoch.durs, dur),
     first |-> IF epoch.durs = <<>> THEN start ELSE epoch.first,
     lastArr |-> arr,
     lastStart |-> start,
     prevEnd |-> IF epoch.durs = <<>> THEN 0
                 ELSE epoch.lastStart + epoch.durs[Len(epoch.durs)],
     b2b |-> epoch.b2b /\ (epoch.durs = <<>> \/ arr = epoch.lastArr),
     lastSeq |-> seq,
     prevSeq |-> epoch.lastSeq,
     cutSeq |-> epoch.cutSeq]

\* lines 161-184 and, without audio, lines 196-200: onmessage up to its await
OnMessage(c, msg) ==
    /\ ConnDelivers(c)
    /\ nMsgs' = nMsgs + 1
    /\ LET fullInput == transcriptionRefs.currentInput \o msg.inT
           fullOutput == transcriptionRefs.currentOutput \o msg.outT
           hasAudio == msg.audio # 0
           threw == hasAudio /\ audioContextRefs.output = null
           intrNow == msg.intr /\ ~hasAudio
           after == Interrupted(bufs, outputPlayback.sources)
       IN  /\ IF msg.turn
                THEN /\ transcriptionHistory' =
                          AppendEntries(transcriptionHistory,
                                        FlushEntries(fullInput, fullOutput))
                     /\ transcriptionRefs' = [currentInput |-> <<>>, currentOutput |-> <<>>]
                     /\ flush' = [fullInput |-> fullInput, fullOutput |-> fullOutput,
                                  before |-> Len(transcriptionHistory),
                                  staleIn |-> carry.in, staleOut |-> carry.out]
                     /\ carry' = [in |-> 0, out |-> 0]
                ELSE /\ transcriptionHistory' = transcriptionHistory
                     /\ transcriptionRefs' =
                          [currentInput |-> fullInput, currentOutput |-> fullOutput]
                     /\ flush' = FlushNone
                     /\ carry' = carry
           /\ IF hasAudio /\ ~threw
                THEN /\ outputPlayback' = [outputPlayback EXCEPT !.nextStartTime =
                                              ClampToDevice(@, outTime)]
                     /\ microtasks' = Append(microtasks,
                                             [ctx |-> audioContextRefs.output,
                                              dur |-> msg.audio, intr |-> msg.intr,
                                              arr |-> outTime, seq |-> nMsgs + 1])
                     /\ UNCHANGED <<bufs, epoch>>
                ELSE IF intrNow
                THEN /\ outputPlayback' = [nextStartTime |-> after.nextStartTime,
                                           sources |-> after.sources]
                     /\ bufs' = after.bufs
                     /\ epoch' = EpochCut(nMsgs + 1)
                     /\ UNCHANGED microtasks
                ELSE UNCHANGED <<outputPlayback, bufs, epoch, microtasks>>
           /\ last' = [LastOf("onmessage") EXCEPT
                         !.threw = threw, !.turn = msg.turn, !.intr = intrNow,
                         !.cut = IF intrNow THEN Cardinality(outputPlayback.sources)
                                 ELSE 0]
    /\ stopStreak' = 0
    /\ UNCHANGED <<isSessionActive, statusMessage, error, sessionPromiseRef, streamRef,
                   audioContextRefs, aiRef, mounted, micPending, nStarts, liveStreams,
                   liveInput, liveOutput, conn, closeReq, outTime, reReleased, pcm, outbound,
                   news, video, grounded>>

\* the continuation queued last runs first
Dequeue_Lifo(q) == [task |-> q[Len(q)], rest |-> SubSeq(q, 1, Len(q) - 1)]

\* line 184: continuations of `await` run in the order in which they were queued
Dequeue(q) == [task |-> Head(q), rest |-> Tail(q)]

\* line 184 and line 34: decodeAudioData rejects (new Int16Array over a
\* buffer of odd byte length throws), the await rethrows and onmessage ends
\* there: lines 185-200 do not run
DecodeRejected ==
    /\ microtasks # <<>>
    /\ Dequeue(microtasks).task.dur = Malformed
    /\ microtasks' = Dequeue(microtasks).rest
    /\ last' = [LastOf("rejected") EXCEPT
                  !.threw = TRUE,
                  !.arg = IF Dequeue(microtasks).task.intr THEN "interrupted" ELSE ""]
    /\ stopStreak' = 0
    /\ flush' = FlushNone
    /\ UNCHANGED <<isSessionActive, statusMessage, error, transcriptionHistory,
                   sessionPromiseRef, streamRef, audioContextRefs, outputPlayback,
                   transcriptionRefs, aiRef, mounted, micPending, nStarts, liveStreams,
                   liveInput, liveOutput, conn, closeReq, outTime, bufs, nMsgs, epoch,
                   carry, reReleased, pcm, outbound,
                   news, video, grounded>>

\* lines 185-200: onmessage after decodeAudioData has resolved
Decoded ==
    /\ microtasks # <<>>
    /\ Dequeue(microtasks).task.dur # Malformed
    /\ LET t == Dequeue(microtasks).task
           id == Len(bufs) + 1
           start == outputPlayback.nextStartTime
           scheduled == Append(bufs, [st |-> "playing", ctx |-> t.ctx,
                                      end |-> start + t.dur])
           sources == outputPlayback.sources \cup {id}
           after == Interrupted(scheduled, sources)
       IN  /\ microtasks' = Dequeue(microtasks).rest
           /\ IF t.intr
                THEN /\ bufs' = after.bufs
                     /\ outputPlayback' = [nextStartTime |-> after.nextStartTime,
                                           sources |-> after.sources]
                     /\ epoch' = EpochCut(t.seq)
                ELSE /\ bufs' = scheduled
                     /\ outputPlayback' = [nextStartTime |-> AdvanceClock(start, t.dur),
                                           sources |-> sources]
                     /\ epoch' = EpochAfter(t.arr, start, t.dur, t.seq)
           /\ last' = [LastOf("decoded") EXCEPT
                         !.intr = t.intr,
                         !.cut = IF t.intr THEN Cardinality(sources) ELSE 0]
    /\ stopStreak' = 0
    /\ flush' = FlushNone
    /\ UNCHANGED <<isSessionActive, statusMessage, error, transcriptionHistory,
                   sessionPromiseRef, streamRef, audioContextRefs, transcriptionRefs,
                   aiRef, mounted, micPending, nStarts, liveStreams, liveInput,
                   liveOutput, conn, closeReq, outTime, nMsgs, carry, reReleased, pcm, outbound,
                   news, video, grounded>>

\* the 'ended' listener leaving the source in the set
Ended_KeptInSet(b) ==
    /\ TaskBoundary
    /\ b \in outputPlayback.sources
    /\ bufs[b].st = "playing"
    /\ bufs[b].ctx # audioContextRefs.output \/ bufs[b].end <= outTime
    /\ outputPlayback' = outputPlayback
    /\ bufs' = [bufs EXCEPT ![b] = [st |-> "ended", ctx |-> @.ctx, end |-> 0]]
    /\ last' = LastOf("ended")
    /\ stopStreak' = 0
    /\ flush' = FlushNone
    /\ UNCHANGED <<isSessionActive, statusMessage, error, transcriptionHistory,
                   sessionPromiseRef, streamRef, audioContextRefs, transcriptionRefs,
                   aiRef, mounted, micPending, nStarts, liveStreams, liveInput,
                   liveOutput, conn, closeReq, outTime, microtasks, nMsgs, epoch,
                   carry, reReleased, pcm, outbound,
                   news, video, grounded>>

\* line 190: a source's 'ended' event, once its buffer has played to its end on
\* the current output context (a source of a replaced context ends on that
\* context's own clock)
Ended(b) ==
    /\ TaskBoundary
    /\ b \in outputPlayback.sources
    /\ bufs[b].ctx # audioContextRefs.output \/ bufs[b].end <= outTime
    /\ outputPlayback' = [outputPlayback EXCEPT !.sources = @ \ {b}]
    /\ bufs' = [bufs EXCEPT ![b] = [st |-> "ended", ctx |-> @.ctx, end |-> 0]]
    /\ last' = LastOf("ended")
    /\ stopStreak' = 0
    /\ flush' = FlushNone
    /\ UNCHANGED <<isSessionActive, statusMessage, error, transcriptionHistory,
                   sessionPromiseRef, streamRef, audioContextRefs, transcriptionRefs,
                   aiRef, mounted, micPending, nStarts, liveStreams, liveInput,
                   liveOutput, conn, closeReq, outTime, microtasks, nMsgs, epoch,
                   carry, reReleased, pcm, outbound,
                   news, video, grounded>>

\* the output context's currentTime advances
Tick ==
    /\ TaskBoundary
    /\ audioContextRefs.output # null
    /\ outTime < MaxTime
    /\ outTime' = outTime + 1
    /\ last' = LastOf("tick")
    /\ stopStreak' = 0
    /\ flush' = FlushNone
    /\ UNCHANGED <<isSessionActive, statusMessage, error, transcriptionHistory,
                   sessionPromiseRef, streamRef, audioContextRefs, outputPlayback,
                   transcriptionRefs, aiRef, mounted, micPending, nStarts, liveStreams,
                   liveInput, liveOutput, conn, closeReq, bufs, microtasks, nMsgs,
                   epoch, carry, reReleased, pcm, outbound,
                   news, video, grounded>>

\* ------------------------------------------------------- message alphabets
\* messages that carry audio or an interruption marker only
AudioMessages ==
    { m \in Messages : m.inT = <<>> /\ m.outT = <<>> /\ ~m.turn }

\* messages that carry transcription fragments or a turn-complete marker only
TextMessages == { m \in Messages : m.audio = 0 /\ ~m.intr }

\* --------------------------------------------------------------------- Next
\* The session lifecycle: every button, promise and connection callback, with
\* audio messages so that playback can be pending when the session stops.
LifeMessage ==
    /\ TaskBoundary
    /\ nMsgs < MaxMsgs
    /\ \E c \in Ids, msg \in AudioMessages : OnMessage(c, msg)

Next ==
    \/ ClickStart
    \/ MicGranted
    \/ MicDenied
    \/ ClickStop
    \/ Teardown
    \/ \E c \in Ids : ConnOpen(c)
    \/ \E c \in Ids, m \in ErrorMessages : OnError(c, m)
    \/ \E c \in Ids : OnClose(c)
    \/ LifeMessage
    \/ Decoded
    \/ \E b \in DOMAIN bufs : Ended(b)

Spec == Init /\ [][Next]_vars

\* the connection of the session in progress, open
OwnConn(c) == c = sessionPromiseRef /\ conn[c] = "open"

\* The playback clock: sessions that receive audio fragments and interruption
\* markers from their own open connection while the output context's time
\* advances.
PlaybackStart ==
    /\ nStarts < PlaybackStarts
    /\ ClickStart

PlaybackMessage ==
    /\ TaskBoundary
    /\ nMsgs < PlaybackMsgs
    /\ \E c \in Ids, msg \in AudioMessages : OwnConn(c) /\ OnMessage(c, msg)

NextPlayback ==
    \/ PlaybackStart
    \/ MicGranted
    \/ ClickStop
    \/ \E c \in Ids : ConnOpen(c)
    \/ PlaybackMessage
    \/ Decoded
    \/ \E b \in DOMAIN bufs : Ended(b)
    \/ Tick

SpecPlayback == Init /\ [][NextPlayback]_vars

\* The transcript assembly: sessions that receive transcription fragments and
\* turn-complete markers from their own open connection, stopped and started
\* again.
TranscriptStart ==
    /\ nStarts < TranscriptStarts
    /\ ClickStart

TranscriptMessage ==
    /\ TaskBoundary
    /\ nMsgs < TranscriptMsgs
    /\ \E c \in Ids, msg \in TextMessages : OwnConn(c) /\ OnMessage(c, msg)

NextTranscript ==
    \/ TranscriptStart
    \/ MicGranted
    \/ ClickStop
    \/ \E c \in Ids : ConnOpen(c)
    \/ TranscriptMessage

SpecTranscript == Init /\ [][NextTranscript]_vars

\* Interleaved deliveries: onmessage is an async function that the client
\* library calls without waiting for the promise of its previous call, so a
\* call made from a continuation of the library that was queued earlier begins
\* while the handler of an earlier message is still suspended at line 184.
InterleavedMessage ==
    /\ nMsgs < InterleaveMsgs
    /\ \E c \in Ids, msg \in AudioMessages : OwnConn(c) /\ OnMessage(c, msg)

NextInterleave ==
    \/ PlaybackStart
    \/ MicGranted
    \/ ClickStop
    \/ \E c \in Ids : ConnOpen(c)
    \/ InterleavedMessage
    \/ Decoded
    \/ \E b \in DOMAIN bufs : Ended(b)
    \/ Tick

SpecInterleave == Init /\ [][NextInterleave]_vars

\* Malformed fragments: the messages of the playback clock, and messages whose
\* audio has an odd decoded byte length, alone or next to a transcription
\* fragment, a turn-complete marker or an interruption marker.
MalformedMessages ==
    [inT : {<<>>, <<"a">>}, outT : {<<>>}, turn : BOOLEAN, audio : {Malformed},
     intr : BOOLEAN]

MalformedMessage ==
    /\ TaskBoundary
    /\ nMsgs < MalformedMsgs
    /\ \E c \in Ids, msg \in AudioMessages \cup MalformedMessages :
          OwnConn(c) /\ OnMessage(c, msg)

NextMalformed ==
    \/ PlaybackStart
    \/ MicGranted
    \/ ClickStop
    \/ \E c \in Ids : ConnOpen(c)
    \/ MalformedMessage
    \/ Decoded
    \/ DecodeRejected
    \/ \E b \in DOMAIN bufs : Ended(b)
    \/ Tick

SpecMalformed == Init /\ [][NextMalformed]_vars

\* The audio conversions on their own: captured frames of up to MaxFrame
\* samples and inbound fragments of up to MaxBytes bytes.
NextCodec ==
    \/ AudioProcess
    \/ InboundAudio
    \/ Echo

SpecCodec == InitCodec /\ [][NextCodec]_vars

\* The capture side: sessions started, stopped and torn down while running
\* processors produce frames.
CaptureFrame ==
    /\ outbound.nFrames < CaptureFrames
    /\ \E ctx \in Ids : OnAudioProcess(ctx)

NextCapture ==
    \/ ClickStart
    \/ MicGranted
    \/ ClickStop
    \/ Teardown
    \/ \E c \in Ids : ConnOpen(c)
    \/ \E c \in Ids : OnClose(c)
    \/ CaptureFrame

SpecCapture == Init /\ [][NextCapture]_vars


\* ------------------------------------------------------------ NewsAnalyzer
\* texts the user can leave in the textarea; the first two are blank
Articles == {"", " ", "article one", "article two"}

\* line 107: articleText.trim()
TrimText(text) == IF text \in {"", " "} THEN "" ELSE text

\* keyword lists an analysis can come back with (geminiService.ts:27-31 asks
\* for 5-10 of them; the response is not checked for their number)
KeywordLists ==
    {<<"tax">>,
     <<"tax", "vote">>,
     <<"tax", "vote", "flood", "mayor", "budget", "strike">>,
     <<"tax", "vote", "flood", "mayor", "budget", "recall">>}

MaxTopics == 5

\* line 132: keywords.slice(0, 5)
SliceTopics(keywords) ==
    SubSeq(keywords, 1, IF Len(keywords) < MaxTopics THEN Len(keywords) ELSE MaxTopics)

\* line 132: join(', ')
RECURSIVE JoinTopics(_)
JoinTopics(keywords) ==
    IF keywords = <<>> THEN ""
    ELSE IF Len(keywords) = 1 THEN keywords[1]
    ELSE keywords[1] \o ", " \o JoinTopics(Tail(keywords))

\* line 132: the query built from the result on screen
ContextQuery(result) ==
    "Provide a brief, neutral summary of the key facts related to the following topics: "
        \o JoinTopics(SliceTopics(result.keywords)) \o "."

ErrEmptyArticle == "Please enter some text to analyze."
ErrAnalysis == "Failed to get analysis from Gemini API. Please check the console for details."
ErrGrounded == "Failed to get response from Gemini API."

\* lines 149-155: the textarea, disabled while an analysis is loading
SetArticleText(text) ==
    /\ ~news.isLoading
    /\ text # news.articleText
    /\ news' = [news EXCEPT !.articleText = text]
    /\ UNCHANGED <<liveChatVars, pcm, video, grounded>>

\* lines 106-117, up to the await; the button (156-162) is disabled while
\* isLoading
handleAnalyze ==
    /\ ~news.isLoading
    /\ news' = IF TrimText(news.articleText) = ""
                 THEN [news EXCEPT !.error = ErrEmptyArticle]
                 ELSE [news EXCEPT !.isLoading = TRUE,
                                   !.error = ErrNull,
                                   !.result = NoResult,
                                   !.contextResult = NoContext,
                                   !.contextError = ErrNull,
                                   !.analysis = [pending |-> TRUE,
                                                 article |-> news.articleText]]
    /\ UNCHANGED <<liveChatVars, pcm, video, grounded>>

\* lines 117-118 and 121-123: analyzeNewsArticle resolved
AnalyzeResolved(keywords) ==
    /\ news.analysis.pending
    /\ news' = [news EXCEPT !.result = [set |-> TRUE,
                                        article |-> news.analysis.article,
                                        keywords |-> keywords],
                            !.isLoading = FALSE,
                            !.analysis = [pending |-> FALSE, article |-> ""]]
    /\ UNCHANGED <<liveChatVars, pcm, video, grounded>>

\* lines 119-123: analyzeNewsArticle rejected (geminiService.ts:64-67)
AnalyzeRejected ==
    /\ news.analysis.pending
    /\ news' = [news EXCEPT !.error = ErrAnalysis,
                            !.isLoading = FALSE,
                            !.analysis = [pending |-> FALSE, article |-> ""]]
    /\ UNCHANGED <<liveChatVars, pcm, video, grounded>>

\* lines 126-133, up to the await; the button (58-64) is rendered with the
\* result (211-217) and disabled while isContextLoading
handleGetContext ==
    /\ news.result.set
    /\ ~news.isContextLoading
    /\ news' = [news EXCEPT !.isContextLoading = TRUE,
                            !.contextResult = NoContext,
                            !.contextError = ErrNull,
                            !.context = [pending |-> TRUE,
                                         query |-> ContextQuery(news.result)]]
    /\ UNCHANGED <<liveChatVars, pcm, video, grounded>>

\* lines 133-134 and 137-139: getGroundedChatResponse resolved with the answer
\* to its query
ContextResolved ==
    /\ news.context.pending
    /\ news' = [news EXCEPT !.contextResult = [set |-> TRUE,
                                               query |-> news.context.query],
                            !.isContextLoading = FALSE,
                            !.context = [pending |-> FALSE, query |-> ""]]
    /\ UNCHANGED <<liveChatVars, pcm, video, grounded>>

\* lines 135-139: getGroundedChatResponse rejected (geminiService.ts:170-173)
ContextRejected ==
    /\ news.context.pending
    /\ news' = [news EXCEPT !.contextError = ErrGrounded,
                            !.isContextLoading = FALSE,
                            !.context = [pending |-> FALSE, query |-> ""]]
    /\ UNCHANGED <<liveChatVars, pcm, video, grounded>>

NextNews ==
    \/ \E text \in Articles : SetArticleText(text)
    \/ handleAnalyze
    \/ \E keywords \in KeywordLists : AnalyzeResolved(keywords)
    \/ AnalyzeRejected
    \/ handleGetContext
    \/ ContextResolved
    \/ ContextRejected

SpecNews == Init /\ [][NextNews]_vars


\* ---------------------------------------------------------- VideoGenerator
MaxChecks == 3

ImageFiles == {"cat.png", "dog.jpg"}

AspectRatios == {"16:9", "9:16"}

MsgStarting == "Starting video generation..."
MsgProcessing == "Processing video... This may take a few minutes."
MsgFinalizing == "Finalizing video..."
MsgDownloading == "Downloading video..."

\* the number of the check is not the number of polls made
StillProcessing_Stale(checks) == "Still processing... (Check " \o ToString(checks - 1) \o ")"

\* geminiService.ts:237
StillProcessing(checks) == "Still processing... (Check " \o ToString(checks) \o ")"

ErrKeyInvalid == "API Key not found or invalid. Please select a valid API key and try again."

\* messages a remote call can reject with; the empty one stands for an error
\* without a message
RemoteErrors ==
    {"Requested entity was not found.", "404 Requested entity was not found. [veo]",
     "Quota exceeded.", ""}

\* geminiService.ts:249
DownloadError(statusText) == "Failed to download video: " \o statusText

\* geminiService.ts:256: message.includes("Requested entity was not found")
IncludesNotFound(message) ==
    message \in {"Requested entity was not found.",
                 "404 Requested entity was not found. [veo]"}

\* VideoGenerator.tsx:100: message.includes("API Key not found")
IncludesKeyNotFound(message) == message = ErrKeyInvalid

\* geminiService.ts:254-260: what generateVideo throws for an error caught in
\* its try block
Rethrown(message) ==
    IF IncludesNotFound(message) THEN ErrKeyInvalid
    ELSE IF message = "" THEN "Failed to generate video."
    ELSE message

\* VideoGenerator.tsx:94 called from geminiService.ts: onProgress(message)
Report(v, message) ==
    [v EXCEPT !.progress = Append(v.progress, message), !.loadingMessage = message]

\* VideoGenerator.tsx:97-106: handleGenerate catches, then its finally block
Caught(v, message) ==
    [v EXCEPT !.error = IF message = "" THEN "An unknown error occurred." ELSE message,
              !.isKeySelected = IF IncludesKeyNotFound(message) THEN FALSE
                                ELSE v.isKeySelected,
              !.isLoading = FALSE,
              !.loadingMessage = "",
              !.pc = "idle"]

\* geminiService.ts:240-247: the loop is left; up to the await of fetch
Finalizing(v, link) ==
    IF link
      THEN [Report(Report(v, MsgFinalizing), MsgDownloading) EXCEPT !.pc = "downloading"]
      ELSE Caught(Report(v, MsgFinalizing), Rethrown("Video generation completed, but no download link was found."))

\* geminiService.ts:233: the loop condition, after operation was assigned
Looping(v, done, link) ==
    IF done THEN Finalizing([v EXCEPT !.done = TRUE], link)
    ELSE [v EXCEPT !.done = FALSE, !.pc = "waiting"]

\* VideoGenerator.tsx:70-76; the input is part of the form, shown when a key is
\* selected
handleFileChange(file) ==
    /\ video.isKeySelected
    /\ file # video.imageFile
    /\ video' = [video EXCEPT !.imageFile = file]
    /\ UNCHANGED <<liveChatVars, pcm, news, grounded>>

\* VideoGenerator.tsx:179-188: the select, disabled while loading
SetAspectRatio(ratio) ==
    /\ video.isKeySelected
    /\ ~video.isLoading
    /\ ratio # video.aspectRatio
    /\ video' = [video EXCEPT !.aspectRatio = ratio]
    /\ UNCHANGED <<liveChatVars, pcm, news, grounded>>

\* VideoGenerator.tsx:62-68
handleSelectKey ==
    /\ ~video.isKeySelected
    /\ video' = [video EXCEPT !.isKeySelected = TRUE]
    /\ UNCHANGED <<liveChatVars, pcm, news, grounded>>

\* VideoGenerator.tsx:78-88, up to the await of blobToBase64; the button
\* (192-198) is disabled while loading and while no image is chosen, so the
\* branch of lines 79-82 is not taken
handleGenerate ==
    /\ video.isKeySelected
    /\ ~video.isLoading
    /\ video.imageFile # ""
    /\ video' = [video EXCEPT !.isLoading = TRUE,
                              !.error = ErrNull,
                              !.videoUrl = NoUrl,
                              !.pc = "reading",
                              !.progress = <<>>, !.checks = 0, !.done = FALSE,
                              !.polls = 0, !.fetched = FALSE, !.returned = NoUrl]
    /\ UNCHANGED <<liveChatVars, pcm, news, grounded>>

\* VideoGenerator.tsx:88-95 and geminiService.ts:207-217: the image is read,
\* generateVideo is entered and runs up to the await of generateVideos
ImageRead ==
    /\ video.pc = "reading"
    /\ video' = IF ~video.apiKey
                  THEN Caught(video, "API_KEY environment variable is not set for video generation.")
                  ELSE [Report(video, MsgStarting) EXCEPT !.pc = "starting"]
    /\ UNCHANGED <<liveChatVars, pcm, news, grounded>>

\* VideoGenerator.tsx:20-33 and 97-106: the image cannot be read
ImageUnreadable(message) ==
    /\ video.pc = "reading"
    /\ video' = Caught(video, message)
    /\ UNCHANGED <<liveChatVars, pcm, news, grounded>>

\* geminiService.ts:217-233 (and 240-247 when the operation is done at once)
VideosStarted(done, link) ==
    /\ video.pc = "starting"
    /\ video' = Looping(Report(video, MsgProcessing), done, link)
    /\ UNCHANGED <<liveChatVars, pcm, news, grounded>>

\* geminiService.ts:234: the ten seconds have passed
PollTimer ==
    /\ video.pc = "waiting"
    /\ video' = [video EXCEPT !.pc = "polling"]
    /\ UNCHANGED <<liveChatVars, pcm, news, grounded>>

\* geminiService.ts:235-238 (and 240-247 when the operation is done); the
\* operation reports done after MaxChecks polls at the latest
Polled(done, link) ==
    /\ video.pc = "polling"
    /\ ~done => video.checks < MaxChecks
    /\ video' = Looping(Report([video EXCEPT !.checks = video.checks + 1,
                                             !.polls = video.polls + 1],
                               StillProcessing(video.checks + 1)),
                        done, link)
    /\ UNCHANGED <<liveChatVars, pcm, news, grounded>>

\* geminiService.ts:217, 235 or 247 rejects: 254-260, then
\* VideoGenerator.tsx:97-106
RemoteFailed(message) ==
    /\ video.pc \in {"starting", "polling", "downloading", "blob"}
    /\ video' = Caught(video, Rethrown(message))
    /\ UNCHANGED <<liveChatVars, pcm, news, grounded>>

\* geminiService.ts:247-252: the response of fetch
Fetched(ok, statusText) ==
    /\ video.pc = "downloading"
    /\ video' = IF ok THEN [video EXCEPT !.fetched = TRUE, !.pc = "blob"]
                ELSE Caught(video, Rethrown(DownloadError(statusText)))
    /\ UNCHANGED <<liveChatVars, pcm, news, grounded>>

\* geminiService.ts:252-253 and VideoGenerator.tsx:96, 103-106
BlobRead(url) ==
    /\ video.pc = "blob"
    /\ video' = [video EXCEPT !.returned = url,
                              !.videoUrl = url,
                              !.isLoading = FALSE,
                              !.loadingMessage = "",
                              !.pc = "idle"]
    /\ UNCHANGED <<liveChatVars, pcm, news, grounded>>

\* a pending timer or remote call completes
VideoCompletes ==
    \/ ImageRead
    \/ \E message \in {"Failed to read blob as base64 string.", ""} : ImageUnreadable(message)
    \/ \E done, link \in BOOLEAN : VideosStarted(done, link)
    \/ PollTimer
    \/ \E done, link \in BOOLEAN : Polled(done, link)
    \/ \E message \in RemoteErrors : RemoteFailed(message)
    \/ \E ok \in BOOLEAN, statusText \in {"Forbidden", ""} : Fetched(ok, statusText)
    \/ \E url \in {"blob:video-1", "blob:video-2"} : BlobRead(url)

NextVideo ==
    \/ \E file \in ImageFiles : handleFileChange(file)
    \/ \E ratio \in AspectRatios : SetAspectRatio(ratio)
    \/ handleSelectKey
    \/ handleGenerate
    \/ VideoCompletes

\* process.env.API_KEY is read again at every call (geminiService.ts:207)
InitVideo ==
    /\ LiveChatInit
    /\ pcm = PcmIdle
    /\ news = NewsIdle
    /\ video \in {[VideoIdle EXCEPT !.apiKey = k] : k \in BOOLEAN}
    /\ grounded = GroundedIdle

SpecVideo == InitVideo /\ [][NextVideo]_vars

\* every timer fires and every call made to the remote service or to the file
\* reader completes, one way or the other
SpecVideoFair == InitVideo /\ [][NextVideo]_vars /\ WF_vars(VideoCompletes)


\* ------------------------------------------------- getGroundedChatResponse
ErrGrounding == "Grounding must use either Search or Maps."

ThinkingBudget == 32768

\* locations a caller can pass; the place at latitude 0, longitude 0 is one
Locations ==
    {NoLocation,
     [set |-> TRUE, latitude |-> 52, longitude |-> 13],
     [set |-> TRUE, latitude |-> 0, longitude |-> 0]}

\* the maps tool is left out
Tools_SearchOnly(useSearch, useMaps) ==
    IF useSearch THEN <<"googleSearch">> ELSE <<>>

\* geminiService.ts:117-119
Tools(useSearch, useMaps) ==
    (IF useSearch THEN <<"googleSearch">> ELSE <<>>)
        \o (IF useMaps THEN <<"googleMaps">> ELSE <<>>)

\* geminiService.ts:121-129 and 134: the toolConfig of the request, present
\* when it has a key
ToolConfig(useMaps, location) ==
    IF useMaps /\ location.set
      THEN [set |-> TRUE, latLng |-> location]
      ELSE [set |-> FALSE, latLng |-> NoLocation]

\* geminiService.ts:131-145: the request handed to generateContent
GroundedRequest(prompt, useSearch, useMaps, useThinkingMode, location) ==
    [set |-> TRUE,
     model |-> IF useThinkingMode THEN "gemini-2.5-pro" ELSE "gemini-2.5-flash",
     contents |-> prompt,
     tools |-> Tools(useSearch, useMaps),
     toolConfig |-> ToolConfig(useMaps, location),
     thinkingBudget |-> IF useThinkingMode THEN ThinkingBudget ELSE 0]

\* grounding chunks of a response: web or maps, with or without uri and title
Chunks ==
    {[kind |-> "web", uri |-> "https://w", title |-> "W"],
     [kind |-> "web", uri |-> "https://w", title |-> ""],
     [kind |-> "web", uri |-> "", title |-> "W"],
     [kind |-> "maps", uri |-> "https://m", title |-> ""],
     [kind |-> "retrievedContext", uri |-> "https://r", title |-> "R"]}

ChunkLists == {<<>>} \cup {<<a>> : a \in Chunks} \cup {<<a, b>> : a, b \in Chunks}

\* geminiService.ts:152-164: the source made of one chunk, if any
SourceOf(chunk) ==
    IF chunk.kind = "web" /\ chunk.uri # ""
      THEN <<[uri |-> chunk.uri,
              title |-> IF chunk.title = "" THEN "Web Search Result" ELSE chunk.title,
              type |-> "web"]>>
    ELSE IF chunk.kind = "maps" /\ chunk.uri # ""
      THEN <<[uri |-> chunk.uri,
              title |-> IF chunk.title = "" THEN "Map Result" ELSE chunk.title,
              type |-> "maps"]>>
    ELSE <<>>

\* geminiService.ts:147-166
RECURSIVE Sources(_)
Sources(chunks) ==
    IF chunks = <<>> THEN <<>>
    ELSE SourceOf(Head(chunks)) \o Sources(Tail(chunks))

\* the arguments of a call: those ChatBot.handleSend passes (part_001:103-129,
\* one of the two flags set), the one NewsAnalyzer passes
\* (NewsAnalyzer.tsx:133) and, the function being exported, any other
GroundedCalls ==
    {[GroundedIdle EXCEPT !.op = "args", !.prompt = "what is near me",
                          !.useSearch = s, !.useMaps = m,
                          !.useThinkingMode = t, !.location = l] :
        s \in BOOLEAN, m \in BOOLEAN, t \in BOOLEAN, l \in Locations}

InitGrounded ==
    /\ LiveChatInit
    /\ pcm = PcmIdle
    /\ news = NewsIdle
    /\ video = VideoIdle
    /\ grounded \in GroundedCalls

\* geminiService.ts:105-145, up to the await of generateContent
getGroundedChatResponse ==
    /\ grounded.op = "args"
    /\ grounded' =
         IF ~grounded.useSearch /\ ~grounded.useMaps
           THEN [grounded EXCEPT !.op = "threw", !.thrown = ErrGrounding]
           ELSE [grounded EXCEPT
                   !.op = "awaiting",
                   !.request = GroundedRequest(grounded.prompt, grounded.useSearch,
                                               grounded.useMaps,
                                               grounded.useThinkingMode,
                                               grounded.location),
                   !.calls = grounded.calls + 1]
    /\ UNCHANGED <<liveChatVars, pcm, news, video>>

\* geminiService.ts:141-168: generateContent resolved
GenerateContentResolved(text, chunks) ==
    /\ grounded.op = "awaiting"
    /\ grounded' = [grounded EXCEPT !.op = "returned",
                                    !.returned = [set |-> TRUE, text |-> text,
                                                  sources |-> Sources(chunks)]]
    /\ UNCHANGED <<liveChatVars, pcm, news, video>>

\* geminiService.ts:170-173: generateContent rejected
GenerateContentRejected ==
    /\ grounded.op = "awaiting"
    /\ grounded' = [grounded EXCEPT !.op = "threw", !.thrown = ErrGrounded]
    /\ UNCHANGED <<liveChatVars, pcm, news, video>>

NextGrounded ==
    \/ getGroundedChatResponse
    \/ \E chunks \in ChunkLists : GenerateContentResolved("answer", chunks)
    \/ GenerateContentRejected

SpecGrounded == InitGrounded /\ [][NextGrounded]_vars

\* ================================================================== claims
RECURSIVE Sum(_)
Sum(ds) == IF ds = <<>> THEN 0 ELSE Head(ds) + Sum(Tail(ds))

\* d1 + ... + d(k-1) for the k fragments scheduled since the clock was reset
SumBefore == Sum(SubSeq(epoch.durs, 1, Len(epoch.durs) - 1))
LastDur == epoch.durs[Len(epoch.durs)]
Scheduled == Len(epoch.durs)

NoneLeftPlaying == \A b \in DOMAIN bufs : bufs[b].st # "playing"

\* C1 as stated: with no interruption, fragment k starts at
\* max(device time at its arrival, initialStart + d1 + ... + d(k-1)).
C1_Original ==
    Scheduled >= 1 =>
        epoch.lastStart = Max(epoch.lastArr, epoch.first + SumBefore)

\* C1 as amended: with no interruption, the first fragment starts at the device
\* time of its arrival and fragment k starts at max(device time at its arrival,
\* end of fragment k-1), so no two scheduled buffers overlap; when all fragments
\* arrive back-to-back this is initialStart + d1 + ... + d(k-1), and fragments of
\* 1.0 s, 0.5 s and 0.75 s put the third 1.5 s after the first one's start.
C1_Scheduling ==
    Scheduled >= 1 =>
        /\ Scheduled = 1 => epoch.lastStart = epoch.lastArr
        /\ Scheduled >= 2 =>
             /\ epoch.lastStart = Max(epoch.lastArr, epoch.prevEnd)
             /\ epoch.lastStart >= epoch.prevEnd
        /\ epoch.b2b => epoch.lastStart = epoch.first + SumBefore
        /\ epoch.b2b /\ epoch.durs = <<4, 2, 3>> => epoch.lastStart = epoch.first + 6

C1_Witness ==
    /\ epoch.durs = <<4, 2, 3>>
    /\ epoch.b2b
    /\ epoch.lastStart = epoch.first + 6
    /\ Cardinality(outputPlayback.sources) = 3

C3_Original ==
    audioContextRefs.output # null => outputPlayback.nextStartTime >= outTime

\* C3 as amended: nextStartTime is at least the device's current time at the
\* moment a fragment is scheduled: it is raised to max(nextStartTime, device
\* time) on the fragment's arrival, the buffer starts there, and the clock is
\* then that start plus the buffer's duration.
C3_ClockAtScheduling ==
    /\ microtasks # <<>> =>
         /\ outputPlayback.nextStartTime >= outTime
         /\ outputPlayback.nextStartTime >= Head(microtasks).arr
    /\ Scheduled >= 1 => epoch.lastStart >= epoch.lastArr
    /\ last.op = "decoded" /\ ~last.intr =>
         outputPlayback.nextStartTime = epoch.lastStart + LastDur

C3_Witness ==
    /\ last.op = "decoded"
    /\ Scheduled >= 2
    /\ epoch.lastStart > epoch.prevEnd
    /\ epoch.lastStart = epoch.lastArr
    /\ outputPlayback.nextStartTime = epoch.lastStart + LastDur

\* the entries the last turn-complete marker appended, and their speakers
Appended ==
    SubSeq(transcriptionHistory, flush.before + 1, Len(transcriptionHistory))
Speakers(entries) == [i \in DOMAIN entries |-> entries[i].speaker]
TagIf(cond, tag) == IF cond THEN <<tag>> ELSE <<>>

\* C4 as stated: a turn-complete marker appends one user entry when the user
\* accumulator is non-empty and one model entry when the model accumulator is
\* non-empty, user first.
C4_Original ==
    last.turn =>
        Speakers(Appended) =
            TagIf(flush.fullInput # <<>>, "user") \o TagIf(flush.fullOutput # <<>>, "model")

\* C4 as amended: a turn-complete marker appends one user entry when the user
\* accumulator holds a character that is not white space and one model entry
\* when the model accumulator does, user first; an accumulator that is empty or
\* all white space appends nothing.
C4_Flush ==
    last.turn =>
        Speakers(Appended) =
            TagIf(Trim(flush.fullInput) # <<>>, "user")
            \o TagIf(Trim(flush.fullOutput) # <<>>, "model")

C4_Witness ==
    /\ last.turn
    /\ Speakers(Appended) = <<"user", "model">>
    /\ Len(transcriptionHistory) = 3

\* the fragments received since the session started
Since(full, stale) == SubSeq(full, stale + 1, Len(full))

\* C5: the text of each entry a turn-complete marker emits is the concatenation
\* of the fragments of its direction received since the previous marker or
\* since the session started, and both accumulators are empty afterwards.
C5_Claim ==
    last.turn =>
        /\ transcriptionRefs.currentInput = <<>>
        /\ transcriptionRefs.currentOutput = <<>>
        /\ \A i \in DOMAIN Appended :
             Appended[i].text =
                IF Appended[i].speaker = "user"
                    THEN Since(flush.fullInput, flush.staleIn)
                    ELSE Since(flush.fullOutput, flush.staleOut)

\* the handlers that run stop(): the Stop button, the unmount, onerror, onclose
StopOps == {"handleStop", "teardown", "onerror", "onclose"}

\* every handle of the session is null, nothing plays, the session is inactive
\* and the status says that it ended
AllReleased ==
    /\ sessionPromiseRef = null
    /\ streamRef = null
    /\ audioContextRefs = [input |-> null, output |-> null,
                           processor |-> null, source |-> null]
    /\ outputPlayback.sources = {}
    /\ NoneLeftPlaying
    /\ ~isSessionActive
    /\ statusMessage = StatusEnded

C7_StopReleases ==
    [][last'.op \in StopOps =>
          /\ AllReleased'
          /\ streamRef \notin liveStreams'
          /\ audioContextRefs.input \notin liveInput'
          /\ audioContextRefs.output \notin liveOutput'
          /\ \A b \in outputPlayback.sources : bufs'[b].st = "stopped"]_vars

C7_Witness ==
    /\ last.op = "handleStop"
    /\ last.cut >= 1
    /\ AllReleased
    /\ liveStreams = {} /\ liveInput = {} /\ liveOutput = {}

\* a connection that is open or opening and that nothing has asked to close
Unclosed(c) == conn[c] \in {"connecting", "open", "stuck"} /\ ~closeReq[c]

\* C8: once the component is torn down no microphone stream, audio context or
\* open connection of the component remains live.
C8_Claim ==
    ~mounted =>
        /\ liveStreams = {}
        /\ liveInput = {}
        /\ liveOutput = {}
        /\ \A c \in Ids : ~Unclosed(c)

\* C9: a start() whose microphone request is denied marks no session active,
\* creates no audio context and opens no connection, and leaves the status
\* message and the error string reporting the denial; a denied first start()
\* leaves the session inactive with nothing created.
C9_MicDenied ==
    [][last'.op = "micDenied" =>
          /\ statusMessage' = StatusDenied
          /\ error' = ErrorDenied
          /\ UNCHANGED <<isSessionActive, sessionPromiseRef, streamRef,
                         audioContextRefs, liveStreams, liveInput, liveOutput,
                         conn, closeReq>>
          /\ nStarts' = 1 =>
               /\ ~isSessionActive'
               /\ liveInput' = {} /\ liveOutput' = {}
               /\ \A c \in Ids : conn'[c] = "none"]_vars

C9_Witness ==
    /\ last.op = "micDenied"
    /\ statusMessage = StatusDenied
    /\ error = ErrorDenied
    /\ ~isSessionActive
    /\ liveInput = {} /\ liveOutput = {}
    /\ \A c \in Ids : conn[c] = "none"

\* C10 as stated: after a transport error with message m the session is stopped
\* and the error shown is exactly m.
C10_Original ==
    last.op = "onerror" => AllReleased /\ error = last.arg

\* C10 as amended: after a transport error with message m the session is
\* stopped and the error shown is "Connection error: " followed by m, verbatim.
C10_ErrorStops ==
    last.op = "onerror" =>
        /\ AllReleased
        /\ error = "Connection error: " \o last.arg

C10_Witness ==
    /\ last.op = "onerror"
    /\ last.arg = "timeout"
    /\ error = "Connection error: timeout"
    /\ last.cut >= 1
    /\ AllReleased

\* C11: when the remote end closes the connection, stop() runs: every handle is
\* null and what it held is released, the session is inactive, and the error
\* string is left as it was, so a close that follows no error and no stop
\* leaves it null.
C11_RemoteClose ==
    [][last'.op = "onclose" =>
          /\ AllReleased'
          /\ streamRef \notin liveStreams'
          /\ audioContextRefs.input \notin liveInput'
          /\ audioContextRefs.output \notin liveOutput'
          /\ error' = error
          /\ (error = ErrNull => error' = ErrNull)]_vars

C11_Witness ==
    /\ last.op = "onclose"
    /\ stopStreak = 1
    /\ last.cut >= 1
    /\ error = ErrNull
    /\ AllReleased
    /\ liveStreams = {} /\ liveInput = {} /\ liveOutput = {}

\* C12: a connection is opened only by a start() of the user: a connection comes
\* into being only in the step in which a pending handleStart resumes after its
\* microphone request and calls connect, one connection per call; the error and
\* close callbacks open none, so after them no connection is opening or open until
\* the user starts again.
C12_NoReconnect ==
    [][/\ \A c \in Ids :
             conn[c] = "none" /\ conn'[c] # "none" =>
                 /\ last'.op = "micGranted"
                 /\ micPending' = micPending - 1
                 /\ conn'[c] = "connecting"
                 /\ \A d \in Ids \ {c} : conn'[d] = conn[d]
       /\ last'.op \in {"onerror", "onclose"} =>
             \A c \in Ids : conn'[c] \in {"connecting", "open"} =>
                               conn[c] = conn'[c]]_vars

C12_Witness ==
    /\ last.op = "onerror"
    /\ nStarts = 1
    /\ micPending = 0
    /\ conn[1] = "closing"
    /\ \A c \in Ids \ {1} : conn[c] = "none"
    /\ sessionPromiseRef = null

\* C13: between one start() and the next the transcript history only grows at
\* its end: every step other than the start of handleStart (server messages,
\* connection callbacks, stop()) keeps the entries it had, in their order, and
\* only a turn-complete marker adds any; the unfinalized text is held in exactly
\* one accumulator for the input direction and one for the output direction.
C13_AppendOnly ==
    [][/\ last'.op # "handleStart" =>
             /\ Len(transcriptionHistory') >= Len(transcriptionHistory)
             /\ SubSeq(transcriptionHistory', 1, Len(transcriptionHistory))
                   = transcriptionHistory
             /\ Len(transcriptionHistory') > Len(transcriptionHistory) =>
                   last'.op = "onmessage" /\ last'.turn
       /\ DOMAIN transcriptionRefs' = {"currentInput", "currentOutput"}]_vars

C13_Witness ==
    /\ last.op = "onmessage"
    /\ last.turn
    /\ flush.before >= 1
    /\ Len(transcriptionHistory) > flush.before
    /\ nStarts = 1

\* C18: the status 'Connected. Start speaking...' is set only from the status
\* 'Connecting to Gemini...' of a session that is still marked active, and a
\* session that stop() has marked inactive does not show it.
C18_Claim ==
    [][statusMessage' = StatusConnected /\ last'.op = "onopen" =>
          /\ statusMessage = StatusConnecting
          /\ isSessionActive
          /\ isSessionActive']_vars

\* C19: buffers are scheduled in the order in which their fragments arrived, and
\* each starts no earlier than the end of the buffer scheduled before it, also
\* when the handler of a later message has begun while the decode of an earlier
\* fragment was still awaited.
C19_ArrivalOrder ==
    /\ epoch.lastSeq > 0 => epoch.lastSeq > epoch.prevSeq
    /\ \A i, j \in DOMAIN microtasks : i < j => microtasks[i].seq < microtasks[j].seq
    /\ \A i \in DOMAIN microtasks : microtasks[i].seq > epoch.lastSeq
    /\ Scheduled >= 2 => epoch.lastStart >= epoch.prevEnd

C19_Witness ==
    /\ last.op = "decoded"
    /\ Scheduled = 2
    /\ epoch.prevSeq = 1 /\ epoch.lastSeq = 2
    /\ epoch.lastStart >= epoch.prevEnd
    /\ Len(microtasks) = 1
    /\ microtasks[1].seq = 3

\* C20: no fragment that arrived before an interruption marker is scheduled
\* after that marker has been handled, also when its decode was still awaited
\* when the marker arrived: every buffer scheduled since the clock was last reset
\* by a marker belongs to a message that arrived after the marker's message.
C20_Claim ==
    Scheduled >= 1 => epoch.lastSeq > epoch.cutSeq

\* C14: a fragment that cannot be decoded affects only itself: after its decode
\* has failed the session is still active with nothing released, and an
\* interruption marker carried by the same message has been processed, so the
\* active set is empty, nothing is left playing and the clock is reset.
C14_Claim ==
    last.op = "rejected" =>
        /\ isSessionActive
        /\ audioContextRefs.output # null
        /\ streamRef # null
        /\ last.arg = "interrupted" =>
              /\ outputPlayback.sources = {}
              /\ NoneLeftPlaying
              /\ outputPlayback.nextStartTime = 0

\* the signed 16-bit little-endian reading of the byte pair at sample position k
SampleAt(bytes, k) ==
    bytes[2 * k - 1] + 256 * bytes[2 * k]
      - (IF bytes[2 * k] >= 128 THEN 65536 ELSE 0)

\* C15: every captured sample s of [-1.0, 1.0], both ends included, is encoded
\* in the blob as the signed 16-bit little-endian integer trunc(s * 32768),
\* without wrap-around, and the blob's MIME type is audio/pcm;rate=16000.
C15_Claim ==
    pcm.op = "capture" =>
        /\ pcm.blob.mimeType = "audio/pcm;rate=16000"
        /\ Len(atob(pcm.blob.data)) = 2 * Len(pcm.frame)
        /\ \A i \in DOMAIN pcm.frame :
              SampleAt(atob(pcm.blob.data), i) = Trunc(pcm.frame[i], StepsPerUnit)

\* C16: a sample of 0.5 that goes through createBlob and encode and then through
\* decode and decodeAudioData comes back within 1/32768 of 0.5, in a buffer that
\* has one sample for each sample of the frame.
C16_RoundTrip ==
    pcm.op = "echo" =>
        /\ ~pcm.buffer.thrown
        /\ pcm.buffer.length = Len(pcm.frame)
        /\ \A i \in DOMAIN pcm.frame :
              pcm.frame[i] = SampleDen \div 2 =>
                  LET d == StepsPerUnit * pcm.buffer.channels[1][i] - pcm.frame[i]
                  IN  -StepsPerUnit <= d /\ d <= StepsPerUnit

C16_Witness ==
    /\ pcm.op = "echo"
    /\ pcm.frame = <<SampleDen \div 2>>
    /\ pcm.wire = <<"A", "E", "A", "=">>
    /\ pcm.buffer.channels = <<(<<DecodeScale \div 2>>)>>

\* C17: an inbound fragment of even byte length is decoded without an error to
\* a buffer of (samples / numChannels) frames at 24000 Hz in which sample i of
\* channel c is v / 32768, v being the signed 16-bit little-endian reading of
\* the byte pair at position i * numChannels + c, and lies in [-1.0, 1.0].
C17_Inbound ==
    pcm.op = "inbound" /\ Len(pcm.bytes) % 2 = 0 =>
        /\ ~pcm.buffer.thrown
        /\ pcm.buffer.sampleRate = 24000
        /\ pcm.buffer.numberOfChannels = NumChannels
        /\ pcm.buffer.length * NumChannels = Len(pcm.bytes) \div 2
        /\ \A c \in 1..NumChannels, i \in 1..pcm.buffer.length :
              LET v == SampleAt(pcm.bytes, (i - 1) * NumChannels + c)
              IN  /\ pcm.buffer.channels[c][i] = v
                  /\ -DecodeScale <= v /\ v <= DecodeScale

C17_Witness ==
    /\ pcm.op = "inbound"
    /\ pcm.bytes = <<0, 128, 255, 127>>
    /\ pcm.wire = <<"A", "I", "D", "/", "f", "w", "=", "=">>
    /\ pcm.buffer.length = 2
    /\ pcm.buffer.channels = <<(<<-DecodeScale, DecodeScale - 1>>)>>

\* the buffers that are scheduled and have neither ended nor been stopped
Playing == {b \in DOMAIN bufs : bufs[b].st = "playing"}

\* C23: the active set holds exactly the buffers that were scheduled and have
\* neither ended nor been stopped: a buffer enters it in the step that schedules
\* it, leaves it in the step of its 'ended' event, and an interruption or stop()
\* empties it after stopping its members.
C23_ActiveSet ==
    /\ outputPlayback.sources = Playing
    /\ last.op = "decoded" /\ ~last.intr => Len(bufs) \in outputPlayback.sources
    /\ last.intr \/ last.op \in StopOps => outputPlayback.sources = {}

C23_Witness ==
    /\ last.op = "ended"
    /\ \E b \in DOMAIN bufs : bufs[b].st = "ended" /\ b \notin outputPlayback.sources
    /\ \E b \in DOMAIN bufs : bufs[b].st = "playing" /\ b \in outputPlayback.sources
    /\ Len(bufs) = 3

\* C24: at most one session is live: never more than one open connection, never
\* more than one microphone stream that has not been stopped, and right after
\* stop() no acquired microphone stream is left running.
C24_Claim ==
    /\ Cardinality({c \in Ids : conn[c] = "open"}) <= 1
    /\ Cardinality(liveStreams) <= 1
    /\ last.op \in StopOps => liveStreams = {}

\* C25: a close or error event of the connection of a session that has already
\* been stopped, delivered while a newer session is in progress, leaves the newer
\* session as it is: its connection is not asked to close, its microphone
\* stream, audio contexts and playback buffers are not released and it stays
\* active.
C25_Claim ==
    [][\A c \in Ids :
          /\ OnClose(c) \/ \E m \in ErrorMessages : OnError(c, m)
          /\ closeReq[c]
          /\ sessionPromiseRef # null /\ sessionPromiseRef # c
          /\ isSessionActive
          => /\ isSessionActive'
             /\ UNCHANGED <<sessionPromiseRef, streamRef, audioContextRefs, closeReq,
                            liveStreams, liveInput, liveOutput, bufs>>]_vars

\* C26: a connection-open event or a decode completion handled while the
\* session is stopped dereferences no null handle, creates no capture node and
\* starts no buffer: it throws nothing and leaves every handle null and the
\* active set empty.
C26_Claim ==
    last.op \in {"onopen", "decoded"} /\ ~isSessionActive =>
        /\ ~last.threw
        /\ audioContextRefs = [input |-> null, output |-> null,
                               processor |-> null, source |-> null]
        /\ streamRef = null
        /\ outputPlayback.sources = {}

\* C27: when a new session starts both transcript accumulators are empty, and
\* the text flushed by a turn-complete marker holds no fragment received before
\* the session started.
C27_Claim ==
    /\ last.op = "handleStart" =>
          /\ transcriptionRefs.currentInput = <<>>
          /\ transcriptionRefs.currentOutput = <<>>
    /\ last.turn => flush.staleIn = 0 /\ flush.staleOut = 0

\* a sequence of frame numbers in the order of the capture callbacks
Ascending(log) == \A i, j \in DOMAIN log : i < j => log[i] < log[j]

\* the frame numbers of a sequence
FramesOf(log) == {log[i] : i \in DOMAIN log}

\* C21: the frames are handed to a connection in the order in which the capture
\* callback produced them, each at most once on one connection only, sends that
\* wait for the session promise keep that order, and a frame produced while the
\* session is active is handed or queued for the session's connection in the
\* step of its callback.
C21_OutboundOrder ==
    [][/\ \A c \in Ids :
             /\ Ascending(outbound.sent'[c] \o outbound.pending'[c])
             /\ \A d \in Ids \ {c} :
                   FramesOf(outbound.sent'[c] \o outbound.pending'[c])
                     \cap FramesOf(outbound.sent'[d] \o outbound.pending'[d]) = {}
             /\ Len(outbound.sent'[c]) >= Len(outbound.sent[c])
             /\ SubSeq(outbound.sent'[c], 1, Len(outbound.sent[c])) = outbound.sent[c]
       /\ outbound.nFrames' # outbound.nFrames /\ isSessionActive =>
             /\ sessionPromiseRef # null
             /\ \/ outbound.sent'[sessionPromiseRef]
                      = Append(outbound.sent[sessionPromiseRef], outbound.nFrames')
                \/ outbound.pending'[sessionPromiseRef]
                      = Append(outbound.pending[sessionPromiseRef], outbound.nFrames')]_vars

C21_Witness ==
    /\ last.op = "onaudioprocess"
    /\ isSessionActive
    /\ sessionPromiseRef # null
    /\ outbound.sent[sessionPromiseRef] = <<1, 2, 3>>

\* C22: a frame is handed to a connection only in the active phase: in a step
\* that hands a frame over, the session is marked active, and stop() has not run
\* since the last call of handleStart.
C22_Claim ==
    [][\A c \in Ids :
          Len(outbound.sent'[c]) > Len(outbound.sent[c]) =>
              /\ ~outbound.afterStop
              /\ isSessionActive']_vars

\* C28: whenever a result and a web context are both on screen, the context is
\* the answer to the query built from the keywords of that result.
C28_Claim ==
    (news.result.set /\ news.contextResult.set) =>
        news.contextResult.query = ContextQuery(news.result)

\* the progress messages of a run that made k polls and went through
ProgressOrder(k) ==
    <<"Starting video generation...",
      "Processing video... This may take a few minutes.">>
        \o [i \in 1..k |-> "Still processing... (Check " \o ToString(i) \o ")"]
        \o <<"Finalizing video...", "Downloading video...">>

IsPrefix(s, t) == Len(s) <= Len(t) /\ s = SubSeq(t, 1, Len(s))

C29_Order ==
    /\ IsPrefix(video.progress, ProgressOrder(video.checks))
    /\ video.checks = video.polls
    /\ video.checks > 0 => Len(video.progress) >= 2 + video.checks
    /\ (\E i \in 1..Len(video.progress) : video.progress[i] = "Finalizing video...")
           => video.done
    /\ video.returned # NoUrl =>
           /\ video.done
           /\ video.fetched
           /\ video.progress = ProgressOrder(video.checks)
           /\ video.videoUrl = video.returned
    /\ (video.isLoading /\ video.progress # <<>>) =>
           video.loadingMessage = video.progress[Len(video.progress)]

C30_Claim ==
    grounded.op \notin {"none", "args"} =>
        IF ~grounded.useSearch /\ ~grounded.useMaps
          THEN /\ grounded.op = "threw"
               /\ grounded.thrown = "Grounding must use either Search or Maps."
               /\ grounded.calls = 0
               /\ ~grounded.request.set
          ELSE /\ grounded.calls = 1
               /\ grounded.request.set
               /\ (\E i \in 1..Len(grounded.request.tools) :
                       grounded.request.tools[i] = "googleSearch") <=> grounded.useSearch
               /\ (\E i \in 1..Len(grounded.request.tools) :
                       grounded.request.tools[i] = "googleMaps") <=> grounded.useMaps
               /\ grounded.request.toolConfig.set =>
                      /\ grounded.useMaps
                      /\ grounded.location.set
                      /\ grounded.request.toolConfig.latLng = grounded.location

C30_Witness ==
    /\ grounded.op = "threw"
    /\ ~grounded.useSearch
    /\ ~grounded.useMaps
    /\ grounded.location.set
    /\ grounded.thrown = ErrGrounding

====
